---- MODULE Spec2Model ----
(***************************************************************************)
(* PostTranslator (taskweaver/role/translator.py): the codec between the   *)
(* JSON text an LLM produces and a Post.  Text is a sequence of one-       *)
(* character strings, so that serialising, tokenizing, escaping and        *)
(* fragment boundaries are computed rather than assumed.                   *)
(***************************************************************************)
EXTENDS Naturals, Integers, Sequences, FiniteSets, TLC

(***************************************************************************)
(* Python values that travel through the codec: str and None (and one      *)
(* number, for contents that are not strings).                             *)
(***************************************************************************)
None == [k |-> "null", s |-> <<>>]
Str(s) == [k |-> "str", s |-> s]
Num(s) == [k |-> "num", s |-> s]

S_response == <<"r", "e", "s", "p", "o", "n", "s", "e">>
S_item == <<"i", "t", "e", "m">>
S_type == <<"t", "y", "p", "e">>
S_content == <<"c", "o", "n", "t", "e", "n", "t">>
S_message == <<"m", "e", "s", "s", "a", "g", "e">>
S_send_to == <<"s", "e", "n", "d", "_", "t", "o">>
S_null == <<"n", "u", "l", "l">>
S_true == <<"t", "r", "u", "e">>
S_false == <<"f", "a", "l", "s", "e">>
QUOTE == "\""
BACKSLASH == "\\"

RECURSIVE Concat(_)
\* "".join(parts)
Concat(parts) ==
    IF parts = <<>> THEN <<>> ELSE Head(parts) \o Concat(Tail(parts))

RECURSIVE JoinWith(_, _)
\* sep.join(parts)
JoinWith(parts, sep) ==
    IF parts = <<>> THEN <<>>
    ELSE IF Len(parts) = 1 THEN parts[1]
    ELSE parts[1] \o sep \o JoinWith(Tail(parts), sep)

(***************************************************************************)
(* json.dumps, default separators (', ' and ': '), of {"response": [..]}.   *)
(* A dict is the sequence of its <<key, value>> pairs in insertion order.  *)
(***************************************************************************)
RECURSIVE EscapeChars(_)
EscapeChars(s) ==
    IF s = <<>> THEN <<>>
    ELSE (IF Head(s) = QUOTE \/ Head(s) = BACKSLASH
          THEN <<BACKSLASH, Head(s)>>
          ELSE <<Head(s)>>) \o EscapeChars(Tail(s))

DumpsStr(s) == <<QUOTE>> \o EscapeChars(s) \o <<QUOTE>>

DumpsVal(v) ==
    CASE v.k = "str" -> DumpsStr(v.s)
      [] v.k = "null" -> S_null
      [] OTHER -> v.s

RECURSIVE DumpsPairs(_)
\* the key/value pairs of a dict, in insertion order
DumpsPairs(d) ==
    IF d = <<>> THEN <<>>
    ELSE DumpsStr(d[1][1]) \o <<":", " ">> \o DumpsVal(d[1][2])
         \o (IF Len(d) = 1 THEN <<>> ELSE <<",", " ">> \o DumpsPairs(Tail(d)))

DumpsDict(d) == <<"{">> \o DumpsPairs(d) \o <<"}">>

DumpsList(l) ==
    <<"[">> \o JoinWith([i \in 1..Len(l) |-> DumpsDict(l[i])], <<",", " ">>) \o <<"]">>

Dumps(structured_llm) ==
    <<"{">> \o DumpsStr(S_response) \o <<":", " ">> \o DumpsList(structured_llm) \o <<"}">>

(***************************************************************************)
(* ijson: the lexer.  A lexeme is a whole string literal, a maximal run    *)
(* of [a-z0-9eE.+-], or one other non-blank character.  A string literal   *)
(* ends at the first quote preceded by an even number of backslashes.      *)
(***************************************************************************)
IsBlank(c) == c \in {" ", "\n", "\t", "\r"}

WordChars ==
    {"a", "b", "c", "d", "e", "f", "g", "h", "i", "j", "k", "l", "m", "n", "o", "p",
     "q", "r", "s", "t", "u", "v", "w", "x", "y", "z", "0", "1", "2", "3", "4", "5",
     "6", "7", "8", "9", "E", ".", "+", "-"}

Digits == {"0", "1", "2", "3", "4", "5", "6", "7", "8", "9"}

RECURSIVE SkipBlank(_, _)
SkipBlank(text, pos) ==
    IF pos <= Len(text) /\ IsBlank(text[pos]) THEN SkipBlank(text, pos + 1) ELSE pos

RECURSIVE StringEnd(_, _, _)
\* index of the closing quote of the literal whose body starts at pos, 0 if none;
\* esc: the character at pos is escaped by a preceding backslash
StringEnd(text, pos, esc) ==
    IF pos > Len(text) THEN 0
    ELSE IF esc THEN StringEnd(text, pos + 1, FALSE)
    ELSE IF text[pos] = BACKSLASH THEN StringEnd(text, pos + 1, TRUE)
    ELSE IF text[pos] = QUOTE THEN pos
    ELSE StringEnd(text, pos + 1, FALSE)

RECURSIVE WordEnd(_, _)
WordEnd(text, pos) ==
    IF pos + 1 <= Len(text) /\ text[pos + 1] \in WordChars
    THEN WordEnd(text, pos + 1) ELSE pos

\* the lexeme at or after pos: [k |-> "eof" | "incomplete" | "lexeme", s, next]
Lexeme(text, pos) ==
    LET p == SkipBlank(text, pos) IN
    IF p > Len(text) THEN [k |-> "eof", s |-> <<>>, next |-> p]
    ELSE IF text[p] = QUOTE
    THEN LET e == StringEnd(text, p + 1, FALSE) IN
         IF e = 0 THEN [k |-> "incomplete", s |-> <<>>, next |-> p]
         ELSE [k |-> "lexeme", s |-> SubSeq(text, p, e), next |-> e + 1]
    ELSE IF text[p] \in WordChars
    THEN LET e == WordEnd(text, p) IN
         [k |-> "lexeme", s |-> SubSeq(text, p, e), next |-> e + 1]
    ELSE [k |-> "lexeme", s |-> <<text[p]>>, next |-> p + 1]

RECURSIVE Unescape(_)
\* the body of a string literal with its escapes resolved
Unescape(s) ==
    IF s = <<>> THEN <<>>
    ELSE IF Head(s) = BACKSLASH /\ Len(s) >= 2
    THEN <<s[2]>> \o Unescape(Tail(Tail(s)))
    ELSE <<Head(s)>> \o Unescape(Tail(s))

parse_string(symbol) == Unescape(SubSeq(symbol, 2, Len(symbol) - 1))

IsNumber(symbol) ==
    /\ symbol # <<>>
    /\ \A i \in 1..Len(symbol) : symbol[i] \in Digits
    /\ (Len(symbol) > 1 => symbol[1] # "0")

(***************************************************************************)
(* ijson.parse: the path-tracking tokenizer.  Its state is the position in *)
(* the text, what the grammar expects next, the stack of open containers   *)
(* and the path the prefix is joined from.  IjsonNext advances to the      *)
(* next event (prefix, event, value), to the end of the events, or to a    *)
(* JSONError; every event tokenized before an error is delivered first.    *)
(***************************************************************************)
IjsonInit == [pos |-> 1, expect |-> "value", ctx |-> <<>>, path |-> <<>>]

Prefix(path) == JoinWith(path, <<".">>)

AfterValue(ctx) ==
    IF ctx = <<>> THEN "done"
    ELSE IF ctx[Len(ctx)] = "map" THEN "obj_end" ELSE "arr_end"

Front(s) == SubSeq(s, 1, Len(s) - 1)

IjsonResult(kind, prefix, event, value, st) ==
    [k |-> kind, prefix |-> prefix, event |-> event, value |-> value, st |-> st]

RECURSIVE IjsonNext(_, _)
IjsonNext(text, st) ==
    LET lx == Lexeme(text, st.pos)
        sym == lx.s
        adv == [st EXCEPT !.pos = lx.next]
        Err == IjsonResult("error", <<>>, "", None, st)
        Scalar(ev, val) ==
            IjsonResult("event", Prefix(st.path), ev, val,
                        [adv EXCEPT !.expect = AfterValue(st.ctx)])
        Close(ev) ==
            IjsonResult("event", Prefix(Front(st.path)), ev, None,
                        [adv EXCEPT !.path = Front(st.path),
                                    !.ctx = Front(st.ctx),
                                    !.expect = AfterValue(Front(st.ctx))])
        Open(ev, kind, top, exp) ==
            IjsonResult("event", Prefix(st.path), ev, None,
                        [adv EXCEPT !.path = Append(st.path, top),
                                    !.ctx = Append(st.ctx, kind),
                                    !.expect = exp])
    IN
    IF lx.k = "incomplete" THEN Err
    ELSE IF lx.k = "eof"
    THEN (IF st.expect = "done" THEN IjsonResult("end", <<>>, "", None, st) ELSE Err)
    ELSE CASE st.expect = "done" -> Err
           [] st.expect \in {"value", "value_or_end"} ->
                IF st.expect = "value_or_end" /\ sym = <<"]">> THEN Close("end_array")
                ELSE IF sym = S_null THEN Scalar("null", None)
                ELSE IF sym = S_true \/ sym = S_false THEN Scalar("boolean", None)
                ELSE IF sym[1] = QUOTE THEN Scalar("string", Str(parse_string(sym)))
                ELSE IF sym = <<"[">> THEN Open("start_array", "array", S_item, "value_or_end")
                ELSE IF sym = <<"{">> THEN Open("start_map", "map", <<>>, "key_or_end")
                ELSE IF IsNumber(sym) THEN Scalar("number", Num(sym))
                ELSE Err
           [] st.expect \in {"key", "key_or_end"} ->
                IF st.expect = "key_or_end" /\ sym = <<"}">> THEN Close("end_map")
                ELSE IF sym[1] = QUOTE
                THEN IjsonResult("event", Prefix(Front(st.path)), "map_key",
                                 Str(parse_string(sym)),
                                 [adv EXCEPT !.path = Append(Front(st.path), parse_string(sym)),
                                             !.expect = "colon"])
                ELSE Err
           [] st.expect = "colon" ->
                IF sym = <<":">> THEN IjsonNext(text, [adv EXCEPT !.expect = "value"])
                ELSE Err
           [] st.expect = "obj_end" ->
                IF sym = <<",">> THEN IjsonNext(text, [adv EXCEPT !.expect = "key"])
                ELSE IF sym = <<"}">> THEN Close("end_map")
                ELSE Err
           [] st.expect = "arr_end" ->
                IF sym = <<",">> THEN IjsonNext(text, [adv EXCEPT !.expect = "value"])
                ELSE IF sym = <<"]">> THEN Close("end_array")
                ELSE Err

(***************************************************************************)
(* parse_llm_output_stream, the loop body: the accumulator `element` is a  *)
(* dict with at most the keys type and content; Absent marks a key that is *)
(* not in the dict, None a key that is pending.                            *)
(***************************************************************************)
Absent == [k |-> "absent", s |-> <<>>]
EmptyElement == [type |-> Absent, content |-> Absent]

P_response_item == S_response \o <<".">> \o S_item
P_response_item_type == P_response_item \o <<".">> \o S_type
P_response_item_content == P_response_item \o <<".">> \o S_content

Accumulate(element, prefix, event, value) ==
    IF prefix = P_response_item /\ event = "map_key" /\ value = Str(S_type)
    THEN [element EXCEPT !.type = None]
    ELSE IF prefix = P_response_item_type /\ event = "string"
    THEN [element EXCEPT !.type = value]
    ELSE IF prefix = P_response_item /\ event = "map_key" /\ value = Str(S_content)
    THEN [element EXCEPT !.content = None]
    ELSE IF prefix = P_response_item_content /\ event = "string"
    THEN [element EXCEPT !.content = value]
    ELSE element

DictLen(element) ==
    (IF element.type = Absent THEN 0 ELSE 1) + (IF element.content = Absent THEN 0 ELSE 1)

\* Complete, but a pending slot counts as filled
CompleteIgnoringPending(element) == DictLen(element) = 2

Complete(element) ==
    DictLen(element) = 2 /\ element.type # None /\ element.content # None

(***************************************************************************)
(* The Field sequence a text yields when the generator is run to its end,  *)
(* and whether the tokenizer raised: the reference the runs are compared   *)
(* with.                                                                   *)
(***************************************************************************)
RECURSIVE RunParser(_, _, _, _)
RunParser(text, st, element, acc) ==
    LET r == IjsonNext(text, st) IN
    IF r.k # "event" THEN [fields |-> acc, error |-> r.k = "error", element |-> element]
    ELSE LET e == Accumulate(element, r.prefix, r.event, r.value) IN
         IF Complete(e) THEN RunParser(text, r.st, EmptyElement, Append(acc, e))
         ELSE RunParser(text, r.st, e, acc)

FieldsOf(text) == RunParser(text, IjsonInit, EmptyElement, <<>>).fields

(***************************************************************************)
(* taskweaver.memory: Post and Attachment, as far as the translator uses   *)
(* them.                                                                   *)
(***************************************************************************)
PostCreate(message, send_from, send_to) ==
    [message |-> message, send_from |-> send_from, send_to |-> send_to,
     attachment_list |-> <<>>]

AttachmentCreate(type, content) == [type |-> type, content |-> content]

AddAttachment(post, attachment) ==
    [post EXCEPT !.attachment_list = Append(post.attachment_list, attachment)]

(***************************************************************************)
(* Bounds and the inputs drawn within them.                                *)
(***************************************************************************)
MaxFields == 2

Gens == {1, 2}

T_x == <<"x">>
C_a == <<"a">>
C_b == <<"b">>
Types == {S_message, S_send_to, T_x}
Contents == {C_a, C_b}
Senders == {<<"U">>}

SeqsUpTo(S, n) == UNION {[1..k -> S] : k \in 0..n}

Item(t, c) == <<<<S_type, Str(t)>>, <<S_content, Str(c)>>>>
Items == {Item(t, c) : t \in Types, c \in Contents}

Endings == {"complete", "truncated", "malformed"}

\* the text an LLM produced: the array of items, complete, cut inside the
\* next object, or with a symbol that is no JSON where the next object belongs
DocText(items, ending) ==
    LET head == <<"{">> \o DumpsStr(S_response) \o <<":", " ">> \o <<"[">>
        objs == [i \in 1..Len(items) |-> DumpsDict(items[i])]
        cut == <<"{">> \o DumpsStr(S_type) \o <<":", " ", QUOTE, "s", "e", "n">>
    IN
    CASE ending = "complete" -> Dumps(items)
      [] ending = "truncated" -> head \o JoinWith(Append(objs, cut), <<",", " ">>)
      [] OTHER -> head \o JoinWith(Append(objs, <<"@">>), <<",", " ">>) \o <<"]", "}">>

Docs == {DocText(items, e) : items \in SeqsUpTo(Items, MaxFields), e \in Endings}

\* early_stop: not given, or a predicate that is true of the Fields of some types
NoCallable == [given |-> FALSE, on |-> {}]
EarlyStops ==
    {NoCallable} \cup {[given |-> TRUE, on |-> s] : s \in {{}, {S_message}, {S_send_to}}}
\* validation_func: not given, one that accepts, one that raises
ValidationFuncs == {"none", "accepts", "raises"}

VARIABLES
    frags,      \* per generator: the fragments of its llm_output iterator
    pulled,     \* per generator: how many fragments it has pulled
    buf,        \* per generator: the joined text behind json_data_stream
    tok,        \* per generator: the state of the ijson parser
    element,    \* per generator: the accumulator
    gpc,        \* per generator: where the generator is
    out,        \* per generator: the Fields it has yielded
    log,        \* the logger's records, in order
    args,       \* the arguments of raw_text_to_post
    opc,        \* where raw_text_to_post is
    post,       \* the Post under construction
    d,          \* the Field the loop body is working on
    calls,      \* the calls of event_handler, early_stop and validation_func
    ret,        \* what raw_text_to_post returned
    ser,        \* the call of post_to_raw_text: its arguments and where it is
    src,        \* the document the fragments were cut from
    plo         \* the call of parse_llm_output: its argument, locals and outcome

genvars == <<frags, pulled, buf, tok, element, gpc, out>>
orchvars == <<args, opc, post, d, calls, ret, ser>>
vars ==
    <<frags, pulled, buf, tok, element, gpc, out, log, args, opc, post, d, calls, ret,
      ser, src, plo>>

NoPost == PostCreate(None, <<>>, None)
NoField == [type |-> None, content |-> None]

GenFresh ==
    /\ pulled = [g \in Gens |-> 0]
    /\ buf = [g \in Gens |-> <<>>]
    /\ tok = [g \in Gens |-> IjsonInit]
    /\ element = [g \in Gens |-> EmptyElement]
    /\ out = [g \in Gens |-> <<>>]
    /\ log = <<>>

GenInit ==
    /\ frags = [g \in Gens |-> <<>>]
    /\ gpc = [g \in Gens |-> "none"]
    /\ GenFresh

NoIgnore == [given |-> FALSE, types |-> {}]
NoSer ==
    [pc |-> "none", post |-> NoPost, if_format_message |-> TRUE,
     if_format_send_to |-> TRUE, ignore_types |-> NoIgnore]
NoSrc == [g \in Gens |-> [items |-> <<>>, text |-> <<>>]]
NoArgs ==
    [llm_output |-> <<>>, send_from |-> <<>>, early_stop |-> NoCallable,
     validation_func |-> "none"]

NoList == [type |-> "none", items |-> <<>>]
NoParse ==
    [pc |-> "none", llm_output |-> <<>>, structured_llm_output |-> NoList,
     e |-> "none", ret |-> NoList, loads |-> 0]

OrchIdle ==
    /\ opc = "idle"
    /\ post = NoPost
    /\ d = NoField
    /\ calls = <<>>
    /\ ret = NoPost

(***************************************************************************)
(* parse_llm_output_stream: a generator.  Nothing of its body runs before  *)
(* the first next(); it then runs to its next yield or to its end.         *)
(***************************************************************************)
\* GenResume, but the accumulator is not reset after the yield
GenResumeKeepsElement(g) ==
    /\ gpc[g] \in {"created", "suspended"}
    /\ gpc' = [gpc EXCEPT ![g] = IF gpc[g] = "created" THEN "joining" ELSE "parsing"]
    /\ UNCHANGED <<frags, pulled, buf, tok, element, out, log>>

\* next(generator), from its creation or from a yield (line 130 on resuming)
GenResume(g) ==
    /\ gpc[g] \in {"created", "suspended"}
    /\ gpc' = [gpc EXCEPT ![g] = IF gpc[g] = "created" THEN "joining" ELSE "parsing"]
    /\ element' = [element EXCEPT ![g] = EmptyElement]
    /\ UNCHANGED <<frags, pulled, buf, tok, out, log>>

\* line 114: join pulls the next fragment of llm_output
PullFragment(g) ==
    /\ gpc[g] = "joining"
    /\ pulled[g] < Len(frags[g])
    /\ pulled' = [pulled EXCEPT ![g] = pulled[g] + 1]
    /\ UNCHANGED <<frags, buf, tok, element, gpc, out, log>>

\* StartParse, but the fragments are joined with a blank between them
StartParseBlankJoin(g) ==
    /\ gpc[g] = "joining"
    /\ pulled[g] = Len(frags[g])
    /\ buf' = [buf EXCEPT ![g] = JoinWith(SubSeq(frags[g], 1, pulled[g]), <<" ">>)]
    /\ tok' = [tok EXCEPT ![g] = IjsonInit]
    /\ element' = [element EXCEPT ![g] = EmptyElement]
    /\ gpc' = [gpc EXCEPT ![g] = "parsing"]
    /\ UNCHANGED <<frags, pulled, out, log>>

\* StartParse, but the stream and the parser are kept on the translator, one for
\* all its generators
StartParseSharedStream(g) ==
    /\ gpc[g] = "joining"
    /\ pulled[g] = Len(frags[g])
    /\ buf' = [h \in Gens |-> Concat(SubSeq(frags[g], 1, pulled[g]))]
    /\ tok' = [h \in Gens |-> IjsonInit]
    /\ element' = [element EXCEPT ![g] = EmptyElement]
    /\ gpc' = [gpc EXCEPT ![g] = "parsing"]
    /\ UNCHANGED <<frags, pulled, out, log>>

\* lines 114-116: llm_output is exhausted; the text is joined and the parser made
StartParse(g) ==
    /\ gpc[g] = "joining"
    /\ pulled[g] = Len(frags[g])
    /\ buf' = [buf EXCEPT ![g] = Concat(SubSeq(frags[g], 1, pulled[g]))]
    /\ tok' = [tok EXCEPT ![g] = IjsonInit]
    /\ element' = [element EXCEPT ![g] = EmptyElement]
    /\ gpc' = [gpc EXCEPT ![g] = "parsing"]
    /\ UNCHANGED <<frags, pulled, out, log>>

\* ParserStep, but the tokenizer's error is not caught: it leaves the generator
ParserStepUncaught(g) ==
    /\ gpc[g] = "parsing"
    /\ LET r == IjsonNext(buf[g], tok[g]) IN
       IF r.k = "event"
       THEN LET e == Accumulate(element[g], r.prefix, r.event, r.value) IN
            /\ tok' = [tok EXCEPT ![g] = r.st]
            /\ element' = [element EXCEPT ![g] = e]
            /\ IF Complete(e)
               THEN /\ out' = [out EXCEPT ![g] = Append(out[g], e)]
                    /\ gpc' = [gpc EXCEPT ![g] = "suspended"]
               ELSE UNCHANGED <<out, gpc>>
            /\ UNCHANGED log
       ELSE /\ gpc' = [gpc EXCEPT ![g] = IF r.k = "error" THEN "raised" ELSE "done"]
            /\ UNCHANGED <<tok, element, out, log>>
    /\ UNCHANGED <<frags, pulled, buf>>

\* lines 118-132: one turn of the loop over the parser's events
ParserStep(g) ==
    /\ gpc[g] = "parsing"
    /\ LET r == IjsonNext(buf[g], tok[g]) IN
       IF r.k = "event"
       THEN LET e == Accumulate(element[g], r.prefix, r.event, r.value) IN
            /\ tok' = [tok EXCEPT ![g] = r.st]
            /\ element' = [element EXCEPT ![g] = e]
            /\ IF Complete(e)
               THEN /\ out' = [out EXCEPT ![g] = Append(out[g], e)]
                    /\ gpc' = [gpc EXCEPT ![g] = "suspended"]
               ELSE UNCHANGED <<out, gpc>>
            /\ UNCHANGED log
       ELSE /\ gpc' = [gpc EXCEPT ![g] = "done"]
            /\ log' = IF r.k = "error" THEN Append(log, "warning") ELSE log
            /\ UNCHANGED <<tok, element, out>>
    /\ UNCHANGED <<frags, pulled, buf>>

\* the generator runs on, inside the next() of whoever consumes it
GenStep(g) ==
    /\ \/ PullFragment(g)
       \/ StartParse(g)
       \/ ParserStep(g)
    /\ UNCHANGED <<orchvars, src, plo>>

(***************************************************************************)
(* raw_text_to_post                                                        *)
(***************************************************************************)
\* Route, but a message or send_to already set is kept
RouteFirstWins(p, type, value) ==
    IF type = Str(S_message)
    THEN (IF p.message = None THEN [p EXCEPT !.message = value] ELSE p)
    ELSE IF type = Str(S_send_to)
    THEN (IF p.send_to = None THEN [p EXCEPT !.send_to = value] ELSE p)
    ELSE AddAttachment(p, AttachmentCreate(type, value))

\* Route, but an attachment equal to one already in the list is not added again
RouteDedup(p, type, value) ==
    IF type = Str(S_message) THEN [p EXCEPT !.message = value]
    ELSE IF type = Str(S_send_to) THEN [p EXCEPT !.send_to = value]
    ELSE IF \E i \in 1..Len(p.attachment_list) :
                p.attachment_list[i] = AttachmentCreate(type, value)
    THEN p
    ELSE AddAttachment(p, AttachmentCreate(type, value))

\* lines 50-55
Route(p, type, value) ==
    IF type = Str(S_message) THEN [p EXCEPT !.message = value]
    ELSE IF type = Str(S_send_to) THEN [p EXCEPT !.send_to = value]
    ELSE AddAttachment(p, AttachmentCreate(type, value))

\* a call of a callable the caller passed in: which one, from which line, with what
Call(fn, line, a, b, p, r) ==
    [fn |-> fn, line |-> line, a |-> a, b |-> b, post |-> p, ret |-> r]

\* f"{post.send_from}->{post.send_to}"
RoutingKey(p) == Str(p.send_from \o <<"-", ">">> \o p.send_to.s)

\* early_stop(type, value)
EarlyStopReturns(early_stop, type, value) == type.s \in early_stop.on

\* lines 45-47: the Post is created and the generator made from [llm_output]
RawTextToPost ==
    /\ opc = "idle"
    /\ ser.pc # "called"
    /\ post' = PostCreate(None, args.send_from, None)
    /\ log' = Append(log, "info")
    /\ frags' = [frags EXCEPT ![1] = <<args.llm_output>>]
    /\ gpc' = [gpc EXCEPT ![1] = "created"]
    /\ opc' = "loop"
    /\ UNCHANGED <<pulled, buf, tok, element, out, args, d, calls, ret, ser, src, plo>>

\* line 47: the for statement asks the generator for the next Field
ForNext ==
    /\ opc = "loop"
    /\ GenResume(1)
    /\ opc' = "in_next"
    /\ UNCHANGED <<args, post, d, calls, ret, ser, src, plo>>

\* lines 48-55: the generator has yielded; the Field is routed into the Post
RouteField ==
    /\ opc = "in_next"
    /\ gpc[1] = "suspended"
    /\ d' = element[1]
    /\ post' = Route(post, element[1].type, element[1].content)
    /\ opc' = "handler"
    /\ UNCHANGED <<genvars, log, args, calls, ret, ser, src, plo>>

\* CallEventHandler, but the handler is told of the Field twice
CallEventHandlerTwice ==
    /\ opc = "handler"
    /\ calls' = calls \o <<Call("event_handler", 56, d.type, d.content, post, FALSE),
                           Call("event_handler", 56, d.type, d.content, post, FALSE)>>
    /\ opc' = "early_stop"
    /\ UNCHANGED <<genvars, log, args, post, d, ret, ser, src, plo>>

\* line 56
CallEventHandler ==
    /\ opc = "handler"
    /\ calls' = Append(calls, Call("event_handler", 56, d.type, d.content, post, FALSE))
    /\ opc' = "early_stop"
    /\ UNCHANGED <<genvars, log, args, post, d, ret, ser, src, plo>>

\* CheckEarlyStop, but the loop goes on where it should break
CheckEarlyStopNoBreak ==
    /\ opc = "early_stop"
    /\ IF args.early_stop.given
       THEN /\ calls' = Append(calls, Call("early_stop", 58, d.type, d.content, post,
                                           EarlyStopReturns(args.early_stop, d.type, d.content)))
            /\ opc' = "loop"
       ELSE /\ opc' = "loop"
            /\ UNCHANGED calls
    /\ UNCHANGED <<genvars, log, args, post, d, ret, ser, src, plo>>

\* lines 58-59: break drops the generator, which closes it
CheckEarlyStop ==
    /\ opc = "early_stop"
    /\ IF args.early_stop.given
       THEN LET r == EarlyStopReturns(args.early_stop, d.type, d.content) IN
            /\ calls' = Append(calls, Call("early_stop", 58, d.type, d.content, post, r))
            /\ opc' = IF r THEN "after_loop" ELSE "loop"
            /\ gpc' = IF r THEN [gpc EXCEPT ![1] = "closed"] ELSE gpc
       ELSE /\ opc' = "loop"
            /\ UNCHANGED <<calls, gpc>>
    /\ UNCHANGED <<frags, pulled, buf, tok, element, out, log, args, post, d, ret, ser,
                   src, plo>>

\* line 47: the generator has ended; the loop is left
\* ForExhausted, but a generator that ended on a tokenizer error makes
\* raw_text_to_post raise
ForExhaustedRaisesOnError ==
    /\ opc = "in_next"
    /\ gpc[1] = "done"
    /\ opc' = IF log # <<>> THEN "raised" ELSE "after_loop"
    /\ UNCHANGED <<genvars, log, args, post, d, calls, ret, ser, src, plo>>

ForExhausted ==
    /\ opc = "in_next"
    /\ gpc[1] = "done"
    /\ opc' = "after_loop"
    /\ UNCHANGED <<genvars, log, args, post, d, calls, ret, ser, src, plo>>

\* EmitRouting, but only when the loop ran to the end of the Fields
EmitRoutingUnlessStopped ==
    /\ opc = "after_loop"
    /\ calls' = IF post.send_to # None /\ gpc[1] = "done"
                THEN Append(calls, Call("event_handler", 62, RoutingKey(post), post.message,
                                        post, FALSE))
                ELSE calls
    /\ opc' = "validate"
    /\ UNCHANGED <<genvars, log, args, post, d, ret, ser, src, plo>>

\* lines 61-62
EmitRouting ==
    /\ opc = "after_loop"
    /\ calls' = IF post.send_to # None
                THEN Append(calls, Call("event_handler", 62, RoutingKey(post), post.message,
                                        post, FALSE))
                ELSE calls
    /\ opc' = "validate"
    /\ UNCHANGED <<genvars, log, args, post, d, ret, ser, src, plo>>

\* Validate, but a failure of validation_func is swallowed and the Post returned
ValidateSwallowsFailure ==
    /\ opc = "validate"
    /\ IF args.validation_func # "none"
       THEN /\ calls' = Append(calls, Call("validation_func", 65, None, None, post,
                                           args.validation_func = "accepts"))
            /\ opc' = "return"
       ELSE /\ opc' = "return"
            /\ UNCHANGED calls
    /\ UNCHANGED <<genvars, log, args, post, d, ret, ser, src, plo>>

\* lines 64-65: an exception of validation_func leaves raw_text_to_post
Validate ==
    /\ opc = "validate"
    /\ IF args.validation_func # "none"
       THEN /\ calls' = Append(calls, Call("validation_func", 65, None, None, post,
                                           args.validation_func = "accepts"))
            /\ opc' = IF args.validation_func = "raises" THEN "raised" ELSE "return"
       ELSE /\ opc' = "return"
            /\ UNCHANGED calls
    /\ UNCHANGED <<genvars, log, args, post, d, ret, ser, src, plo>>

\* line 66
Return ==
    /\ opc = "return"
    /\ ret' = post
    /\ opc' = "returned"
    /\ UNCHANGED <<genvars, log, args, post, d, calls, ser, src, plo>>

Init ==
    /\ GenInit
    /\ OrchIdle
    /\ plo = NoParse
    /\ ser = NoSer
    /\ src = NoSrc
    /\ args \in [llm_output : Docs, send_from : Senders, early_stop : EarlyStops,
                 validation_func : ValidationFuncs]

Next ==
    \/ RawTextToPost
    \/ ForNext
    \/ GenStep(1)
    \/ RouteField
    \/ CallEventHandler
    \/ CheckEarlyStop
    \/ ForExhausted
    \/ EmitRouting
    \/ Validate
    \/ Return

Spec == Init /\ [][Next]_vars

(***************************************************************************)
(* parse_llm_output_stream called by itself: a consumer pulls its Fields   *)
(* one next() at a time.                                                   *)
(***************************************************************************)
KT(v) == <<S_type, v>>
KC(v) == <<S_content, v>>
S_k == <<"k">>

\* array elements of the wire format: both keys, each once, with string values
PlainItems == {Item(S_message, C_a), Item(T_x, <<QUOTE>>)}
\* array elements of any shape: keys in either order, a key missing, repeated or
\* extra, values that are no strings
StreamItems ==
    {Item(S_message, C_a), Item(T_x, C_b),
     <<KC(Str(C_a)), KT(Str(T_x))>>,
     <<KT(Str(T_x)), <<S_k, Str(C_b)>>, KC(Str(<<>>))>>,
     <<KT(Str(T_x))>>,
     <<KC(Str(C_b))>>,
     <<KT(Str(T_x)), KC(None)>>,
     <<KT(Str(S_message)), KC(Num(<<"5">>))>>,
     <<KT(Str(T_x)), KT(Str(S_message)), KC(Str(C_a))>>}

Chars(text) == [i \in 1..Len(text) |-> <<text[i]>>]
SplitAt(text, k) == <<SubSeq(text, 1, k), SubSeq(text, k + 1, Len(text))>>

StreamInput(items, fr) == [items |-> items, frags |-> fr]

\* documents of any shape and ending, in one fragment
WholeInputs ==
    {StreamInput(items, <<DocText(items, e)>>) :
        items \in SeqsUpTo(StreamItems, MaxFields), e \in Endings}

\* documents of the wire format cut off after any number of characters
CutInputs ==
    UNION {{StreamInput(items, <<SubSeq(Dumps(items), 1, k)>>) :
                k \in 0..Len(Dumps(items))} :
           items \in SeqsUpTo(PlainItems, MaxFields)}

\* documents of the wire format in two fragments, split anywhere, or in
\* fragments of one character
SplitInputs ==
    UNION {{StreamInput(items, SplitAt(Dumps(items), k)) :
                k \in 1..(Len(Dumps(items)) - 1)}
             \cup {StreamInput(items, Chars(Dumps(items)))} :
           items \in SeqsUpTo(PlainItems, MaxFields)}

StreamInputs == WholeInputs \cup CutInputs \cup SplitInputs

Source(inp) == [items |-> inp.items, text |-> Concat(inp.frags)]

\* next(generator), called by the consumer of the Fields
ConsumerNext(g) ==
    /\ \A h \in Gens : gpc[h] \notin {"joining", "parsing"}
    /\ GenResume(g)
    /\ UNCHANGED <<orchvars, src, plo>>

InitStream ==
    /\ \E inp \in StreamInputs :
          /\ frags = [g \in Gens |-> IF g = 1 THEN inp.frags ELSE <<>>]
          /\ src = [g \in Gens |-> IF g = 1 THEN Source(inp) ELSE NoSrc[g]]
    /\ gpc = [g \in Gens |-> IF g = 1 THEN "created" ELSE "none"]
    /\ GenFresh
    /\ OrchIdle
    /\ plo = NoParse
    /\ args = NoArgs
    /\ ser = NoSer

NextStream ==
    \/ ConsumerNext(1)
    \/ GenStep(1)

SpecStream == InitStream /\ [][NextStream]_vars


(***************************************************************************)
(* Two generators of one PostTranslator, each with its consumer.  Python   *)
(* runs one of them at a time: a generator that has been resumed runs to   *)
(* its next yield before the other is resumed.                             *)
(***************************************************************************)
MaxPairFields == 1

PairItems == {Item(T_x, <<QUOTE>>)}
PairTexts ==
    {DocText(items, e) : items \in SeqsUpTo(PairItems, MaxPairFields),
                         e \in {"complete", "truncated"}}
CoarseSplits(text) == {<<text>>, Chars(text)}
AllSplits(text) == CoarseSplits(text) \cup {SplitAt(text, k) : k \in 1..(Len(text) - 1)}

InitPair ==
    /\ \E t1 \in PairTexts, t2 \in PairTexts :
          \E f1 \in CoarseSplits(t1), f2 \in AllSplits(t2) :
             /\ frags = [g \in Gens |-> IF g = 1 THEN f1 ELSE f2]
             /\ src = [g \in Gens |-> [items |-> <<>>, text |-> IF g = 1 THEN t1 ELSE t2]]
    /\ gpc = [g \in Gens |-> "created"]
    /\ GenFresh
    /\ OrchIdle
    /\ plo = NoParse
    /\ args = NoArgs
    /\ ser = NoSer

NextPair == \E g \in Gens : ConsumerNext(g) \/ GenStep(g)

SpecPair == InitPair /\ [][NextPair]_vars


(***************************************************************************)
(* post_to_raw_text, and the round trip through raw_text_to_post.          *)
(***************************************************************************)
\* lines 85-98, with the default content_formatter (lambda x: x.content)
\* StructuredLlm, but the message dict is appended before the send_to dict
StructuredLlmMessageFirst(p, if_format_message, if_format_send_to, ignore_types) ==
    LET kept == SelectSeq(p.attachment_list,
                          LAMBDA a : ~(ignore_types.given /\ a.type.s \in ignore_types.types))
    IN
    [i \in 1..Len(kept) |-> <<KT(kept[i].type), KC(kept[i].content)>>]
        \o (IF if_format_message THEN <<<<KT(Str(S_message)), KC(p.message)>>>> ELSE <<>>)
        \o (IF if_format_send_to THEN <<<<KT(Str(S_send_to)), KC(p.send_to)>>>> ELSE <<>>)

StructuredLlm(p, if_format_message, if_format_send_to, ignore_types) ==
    LET kept == SelectSeq(p.attachment_list,
                          LAMBDA a : ~(ignore_types.given /\ a.type.s \in ignore_types.types))
    IN
    [i \in 1..Len(kept) |-> <<KT(kept[i].type), KC(kept[i].content)>>]
        \o (IF if_format_send_to THEN <<<<KT(Str(S_send_to)), KC(p.send_to)>>>> ELSE <<>>)
        \o (IF if_format_message THEN <<<<KT(Str(S_message)), KC(p.message)>>>> ELSE <<>>)

\* PostToRawText, but an attachment is skipped also when ignore_types is None
PostToRawTextSkipsWhenNone(p, if_format_message, if_format_send_to, ignore_types) ==
    Dumps(StructuredLlm([p EXCEPT !.attachment_list =
                              IF ignore_types.given THEN p.attachment_list ELSE <<>>],
                        if_format_message, if_format_send_to, ignore_types))

\* lines 85-99
PostToRawText(p, if_format_message, if_format_send_to, ignore_types) ==
    Dumps(StructuredLlm(p, if_format_message, if_format_send_to, ignore_types))

MaxAttachments == 2

C_esc == <<QUOTE, BACKSLASH>>
CodecAttachments ==
    {AttachmentCreate(Str(t), c) : t \in {T_x, S_message}, c \in {Str(C_esc), Num(<<"5">>)}}
CodecPosts ==
    {[message |-> m, send_from |-> s, send_to |-> st, attachment_list |-> al] :
        m \in {None, Str(C_a)}, s \in Senders, st \in {None, Str(C_b)},
        al \in SeqsUpTo(CodecAttachments, MaxAttachments)}
IgnoreTypes == {NoIgnore, [given |-> TRUE, types |-> {T_x}]}

\* PostToRawTextCall, but the attachments of ignored types are removed from the
\* Post itself
PostToRawTextCallDropsIgnored ==
    /\ ser.pc = "called"
    /\ ser' = [ser EXCEPT !.pc = "done",
                          !.post.attachment_list =
                              SelectSeq(@, LAMBDA a : ~(ser.ignore_types.given
                                                        /\ a.type.s \in ser.ignore_types.types))]
    /\ args' = [llm_output |-> PostToRawText(ser.post, ser.if_format_message,
                                             ser.if_format_send_to, ser.ignore_types),
                send_from |-> ser.post.send_from,
                early_stop |-> NoCallable,
                validation_func |-> "none"]
    /\ UNCHANGED <<genvars, log, opc, post, d, calls, ret, src, plo>>

\* post_to_raw_text(post, ...) is called and its text is handed on to
\* raw_text_to_post, with the Post's sender and no early_stop or validation_func
PostToRawTextCall ==
    /\ ser.pc = "called"
    /\ ser' = [ser EXCEPT !.pc = "done"]
    /\ args' = [llm_output |-> PostToRawText(ser.post, ser.if_format_message,
                                             ser.if_format_send_to, ser.ignore_types),
                send_from |-> ser.post.send_from,
                early_stop |-> NoCallable,
                validation_func |-> "none"]
    /\ UNCHANGED <<genvars, log, opc, post, d, calls, ret, src, plo>>

InitCodec ==
    /\ GenInit
    /\ OrchIdle
    /\ plo = NoParse
    /\ args = NoArgs
    /\ src = NoSrc
    /\ ser \in [pc : {"called"}, post : CodecPosts, if_format_message : BOOLEAN,
                if_format_send_to : BOOLEAN, ignore_types : IgnoreTypes]

NextCodec ==
    \/ PostToRawTextCall
    \/ Next

SpecCodec == InitCodec /\ [][NextCodec]_vars


(***************************************************************************)
(* What the runs are compared with.                                        *)
(***************************************************************************)
\* the Fields raw_text_to_post has routed so far: those yielded, but for one
\* that is yielded and not yet taken by the loop body
Routed ==
    IF opc = "in_next" /\ gpc[1] = "suspended" THEN Front(out[1]) ELSE out[1]

RECURSIVE LastOf(_, _)
\* the content of the last Field of type t, None if there is none
LastOf(fields, t) ==
    IF fields = <<>> THEN None
    ELSE IF fields[Len(fields)].type = Str(t) THEN fields[Len(fields)].content
    ELSE LastOf(Front(fields), t)

IsAttachmentField(f) == f.type # Str(S_message) /\ f.type # Str(S_send_to)

RECURSIVE AttachmentsOf(_)
\* the Fields that are neither message nor send_to, in order
AttachmentsOf(fields) ==
    IF fields = <<>> THEN <<>>
    ELSE (IF IsAttachmentField(Head(fields))
          THEN <<[type |-> Head(fields).type, content |-> Head(fields).content]>>
          ELSE <<>>) \o AttachmentsOf(Tail(fields))

\* the Post that holds exactly these Fields
PostOf(send_from, fields) ==
    [message |-> LastOf(fields, S_message), send_from |-> send_from,
     send_to |-> LastOf(fields, S_send_to), attachment_list |-> AttachmentsOf(fields)]

FieldCalls == SelectSeq(calls, LAMBDA c : c.fn = "event_handler" /\ c.line = 56)
StopCalls == SelectSeq(calls, LAMBDA c : c.fn = "early_stop")
RoutingCalls == SelectSeq(calls, LAMBDA c : c.fn = "event_handler" /\ c.line = 62)
Stopped == \E j \in 1..Len(calls) : calls[j].fn = "early_stop" /\ calls[j].ret

(***************************************************************************)
(* C1. Round trip, as claimed: for every Post, raw_text_to_post of the     *)
(* text post_to_raw_text makes of it (default formatter, both flags on,    *)
(* no ignore_types) returns a Post with the same attachments, message and  *)
(* send_to.                                                                *)
(***************************************************************************)
DefaultSerialization ==
    ser.pc = "done" /\ ser.if_format_message /\ ser.if_format_send_to
        /\ ~ser.ignore_types.given

SamePayload(p, q) ==
    /\ p.attachment_list = q.attachment_list
    /\ p.message = q.message
    /\ p.send_to = q.send_to

RoundTrippable(p) ==
    \A i \in 1..Len(p.attachment_list) :
        /\ p.attachment_list[i].content.k = "str"
        /\ p.attachment_list[i].type \notin {Str(S_message), Str(S_send_to)}

TypePairs(item) == SelectSeq(item, LAMBDA pr : pr[1] = S_type)
ContentPairs(item) == SelectSeq(item, LAMBDA pr : pr[1] = S_content)

\* an array element of the wire format: one type and one content, both strings
IsValidItem(item) ==
    /\ Len(TypePairs(item)) = 1
    /\ Len(ContentPairs(item)) = 1
    /\ TypePairs(item)[1][2].k = "str"
    /\ ContentPairs(item)[1][2].k = "str"

ItemField(item) == [type |-> TypePairs(item)[1][2], content |-> ContentPairs(item)[1][2]]

IsValidDocument(s) ==
    /\ s.text = Dumps(s.items)
    /\ \A i \in 1..Len(s.items) : IsValidItem(s.items[i])

IsPrefixOf(a, b) == Len(a) <= Len(b) /\ a = SubSeq(b, 1, Len(a))

\* the text is not the JSON document of its items: it was cut, or is malformed
IsBroken(s) == s.text # Dumps(s.items)

\* where, in Dumps(items), the closing quote of the i-th element's content is
FieldEnd(items, i) ==
    LET objs == [j \in 1..i |-> DumpsDict(items[j])] IN
    Len(S_response) + 6 + Len(JoinWith(objs, <<",", " ">>)) - 1

\* the Fields whose text lies wholly before the place the tokenizer fails at
FieldsBeforeError(s) ==
    IF IsPrefixOf(s.text, Dumps(s.items))
    THEN LET n == Cardinality({i \in 1..Len(s.items) : FieldEnd(s.items, i) <= Len(s.text)})
         IN [i \in 1..n |-> ItemField(s.items[i])]
    ELSE FieldsOf(Dumps(s.items))

(***************************************************************************)
(* C2. Order preservation: of a valid document the generator yields, at    *)
(* every point, the Fields of the first array elements in array order,     *)
(* each with the type and content of its element, and when it ends it has  *)
(* yielded one Field for every element.                                    *)
(***************************************************************************)
C2_OrderPreserved ==
    IsValidDocument(src[1]) =>
        /\ Len(out[1]) <= Len(src[1].items)
        /\ \A i \in 1..Len(out[1]) : out[1][i] = ItemField(src[1].items[i])
        /\ gpc[1] = "done" => Len(out[1]) = Len(src[1].items)

\* a valid document of two different elements, one with content before type,
\* was parsed to its end
W2_TwoFieldsInOrder ==
    /\ gpc[1] = "done"
    /\ IsValidDocument(src[1])
    /\ Len(src[1].items) = 2
    /\ src[1].items[2][1][1] = S_content
    /\ Len(out[1]) = 2
    /\ out[1][1] # out[1][2]

(***************************************************************************)
(* C3. Graceful truncation: of a text that is cut off or malformed the     *)
(* generator yields the Fields that lie before the place of the error and  *)
(* no other, each with both slots holding a string; it then logs one       *)
(* warning and ends, and the error does not leave the generator.           *)
(***************************************************************************)
C3_GracefulTruncation ==
    IsBroken(src[1]) =>
        /\ IsPrefixOf(out[1], FieldsBeforeError(src[1]))
        /\ \A i \in 1..Len(out[1]) : out[1][i].type.k = "str" /\ out[1][i].content.k = "str"
        /\ gpc[1] # "raised"
        /\ gpc[1] = "done" => out[1] = FieldsBeforeError(src[1]) /\ log = <<"warning">>
        /\ gpc[1] # "done" => log = <<>>

\* the text was cut inside the second object: one Field was yielded, the warning
\* logged, and the accumulator holds the half-read second Field
W3_CutInSecondObject ==
    /\ gpc[1] = "done"
    /\ IsBroken(src[1])
    /\ Len(src[1].items) = 2
    /\ Len(out[1]) = 1
    /\ element[1].type # Absent
    /\ log = <<"warning">>

\* the text holds a symbol that is no JSON after its first object
W3_Malformed ==
    /\ gpc[1] = "done"
    /\ src[1].text = DocText(src[1].items, "malformed")
    /\ Len(out[1]) = 1
    /\ log = <<"warning">>

(***************************************************************************)
(* C4. Incremental emission: when the generator yields a Field it has      *)
(* pulled no fragment that lies after the one completing that Field, that  *)
(* is, the fragments pulled before the last one do not hold the Field.     *)
(***************************************************************************)
C4_IncrementalEmission ==
    (gpc[1] = "suspended" /\ pulled[1] >= 1) =>
        Len(FieldsOf(Concat(SubSeq(frags[1], 1, pulled[1] - 1)))) < Len(out[1])

(***************************************************************************)
(* C5. Chunk-invariance: two generators given the same text in different   *)
(* fragments (one fragment, fragments of one character, two fragments      *)
(* split anywhere, also inside a string) have yielded the same Fields      *)
(* when both have ended.                                                   *)
(***************************************************************************)
C5_ChunkInvariance ==
    (src[1].text = src[2].text /\ gpc[1] = "done" /\ gpc[2] = "done") => out[1] = out[2]

\* the same text, whole for one generator and split inside the content string
\* for the other, and both have yielded its Field
W5_SplitInsideString ==
    /\ src[1].text = src[2].text
    /\ gpc[1] = "done"
    /\ gpc[2] = "done"
    /\ Len(frags[1]) = 1
    /\ Len(frags[2]) = 2
    /\ frags[2][1][Len(frags[2][1])] = BACKSLASH
    /\ Len(out[2]) = 1

(***************************************************************************)
(* C6. Last-wins routing: at every point of raw_text_to_post the Post's    *)
(* message is the content of the last routed Field of type message (None   *)
(* if there is none), its send_to the content of the last routed Field of  *)
(* type send_to (None if none), and no attachment stems from such a Field. *)
(***************************************************************************)
C6_LastWins ==
    opc # "idle" =>
        /\ post.message = LastOf(Routed, S_message)
        /\ post.send_to = LastOf(Routed, S_send_to)
        /\ Len(post.attachment_list)
             = Cardinality({i \in 1..Len(Routed) : IsAttachmentField(Routed[i])})

\* two message Fields with different contents were routed and the Post returned
W6_TwoMessages ==
    /\ opc = "returned"
    /\ Len(Routed) = 2
    /\ Routed[1].type = Str(S_message)
    /\ Routed[2].type = Str(S_message)
    /\ Routed[1].content # Routed[2].content
    /\ ret.message = Routed[2].content

(***************************************************************************)
(* C7. Attachment accumulation: at every point of raw_text_to_post the     *)
(* Post's attachment list is the routed Fields that are neither message    *)
(* nor send_to, in the order they were routed, repeated ones repeated.     *)
(***************************************************************************)
C7_AttachmentsAccumulate ==
    opc # "idle" => post.attachment_list = AttachmentsOf(Routed)

\* the same attachment Field was routed twice and is in the returned Post twice
W7_RepeatedAttachment ==
    /\ opc = "returned"
    /\ Len(Routed) = 2
    /\ Routed[1] = Routed[2]
    /\ IsAttachmentField(Routed[1])
    /\ Len(ret.attachment_list) = 2
    /\ ret.attachment_list[1] = ret.attachment_list[2]

(***************************************************************************)
(* C8. Per-field callback order: event_handler is called from line 56 once *)
(* for each routed Field, in the order of the Fields, with its type and    *)
(* content, when the Post already holds that Field; and early_stop is      *)
(* called for a Field only right after event_handler was called for it.    *)
(***************************************************************************)
C8_HandlerOncePerFieldInOrder ==
    /\ Len(FieldCalls) = Len(Routed) - (IF opc = "handler" THEN 1 ELSE 0)
    /\ \A i \in 1..Len(FieldCalls) :
          /\ FieldCalls[i].a = Routed[i].type
          /\ FieldCalls[i].b = Routed[i].content
          /\ FieldCalls[i].post = PostOf(args.send_from, SubSeq(Routed, 1, i))
    /\ \A j \in 1..Len(calls) :
          calls[j].fn = "early_stop" =>
              /\ j > 1
              /\ calls[j - 1].fn = "event_handler"
              /\ calls[j - 1].line = 56
              /\ calls[j - 1].a = calls[j].a
              /\ calls[j - 1].b = calls[j].b
    /\ Len(StopCalls) = IF args.early_stop.given
                        THEN Len(FieldCalls) - (IF opc = "early_stop" THEN 1 ELSE 0)
                        ELSE 0

\* two Fields were routed, each told to event_handler and then to early_stop
W8_TwoFieldsHandled ==
    /\ opc = "returned"
    /\ Len(Routed) = 2
    /\ Routed[1] # Routed[2]
    /\ Len(FieldCalls) = 2
    /\ Len(StopCalls) = 2

(***************************************************************************)
(* C9. Early stop: once early_stop has returned true for a Field, no later *)
(* Field of the document is routed and neither event_handler (from line   *)
(* 56) nor early_stop is called again; the Post holds exactly the Fields   *)
(* of the document up to and including that Field.                         *)
(***************************************************************************)
C9_EarlyStop ==
    \A j \in 1..Len(calls) :
        (calls[j].fn = "early_stop" /\ calls[j].ret) =>
            /\ \A k \in (j + 1)..Len(calls) : calls[k].line \notin {56, 58}
            /\ post = calls[j].post
            /\ Len(FieldCalls) = Len(out[1])
            /\ out[1] = SubSeq(FieldsOf(args.llm_output), 1, Len(out[1]))
            /\ post = PostOf(args.send_from, out[1])

\* early_stop was true of the first of two Fields and the Post was returned
W9_StoppedBeforeSecondField ==
    /\ opc = "returned"
    /\ Stopped
    /\ Len(out[1]) = 1
    /\ Len(FieldsOf(args.llm_output)) = 2

(***************************************************************************)
(* C10. Routing event: while the loop runs event_handler is not called     *)
(* from line 62; once the loop is left, by its end or by break, and line   *)
(* 61-62 have run, it has been called from there once with the key         *)
(* "{send_from}->{send_to}" and the Post's message if the Post's send_to   *)
(* is not None, and not at all otherwise; that call follows every call     *)
(* from the loop and precedes the call of validation_func.                 *)
(***************************************************************************)
C10_RoutingEvent ==
    /\ opc \notin {"validate", "return", "returned", "raised"} => RoutingCalls = <<>>
    /\ opc \in {"validate", "return", "returned", "raised"} =>
          IF post.send_to # None
          THEN /\ Len(RoutingCalls) = 1
               /\ RoutingCalls[1].a = Str(args.send_from \o <<"-", ">">> \o post.send_to.s)
               /\ RoutingCalls[1].b = post.message
          ELSE RoutingCalls = <<>>
    /\ \A j \in 1..Len(calls) :
          calls[j].line = 62 =>
              /\ \A k \in 1..Len(calls) : calls[k].line \in {56, 58} => k < j
              /\ \A k \in 1..Len(calls) : calls[k].line = 65 => k > j

\* the loop was left by break after a send_to Field and the routing call was made
W10_RoutingAfterEarlyStop ==
    /\ opc = "returned"
    /\ Stopped
    /\ post.send_to # None
    /\ Len(RoutingCalls) = 1
    /\ Len(FieldsOf(args.llm_output)) > Len(out[1])

\* the loop ran to its end, send_to was never set and no routing call was made
W10_NoRoutingWithoutSendTo ==
    /\ opc = "returned"
    /\ ~Stopped
    /\ Len(out[1]) > 0
    /\ post.send_to = None
    /\ RoutingCalls = <<>>

ValidationCalls == SelectSeq(calls, LAMBDA c : c.fn = "validation_func")

(***************************************************************************)
(* C11. Validation: when validation_func is given it is called once, as    *)
(* the last call of all, with the Post built from the routed Fields; when  *)
(* it raises, raw_text_to_post ends without returning a Post; when it      *)
(* accepts, the Post returned is the Post it was called with.  It is not   *)
(* called before line 64, nor when it is not given.                        *)
(***************************************************************************)
C11_Validation ==
    /\ (opc \in {"return", "returned", "raised"} /\ args.validation_func # "none") =>
          /\ Len(ValidationCalls) = 1
          /\ calls[Len(calls)].fn = "validation_func"
          /\ ValidationCalls[1].post = post
          /\ post = PostOf(args.send_from, Routed)
    /\ (opc \notin {"return", "returned", "raised"} \/ args.validation_func = "none") =>
          ValidationCalls = <<>>
    /\ opc = "raised" <=> (ValidationCalls # <<>> /\ args.validation_func = "raises")
    /\ opc = "raised" => ret = NoPost
    /\ opc = "returned" =>
          /\ ret = post
          /\ args.validation_func # "raises"
          /\ args.validation_func = "accepts" => ret = ValidationCalls[1].post

\* validation_func raised on a Post of two Fields, after the routing call, and
\* nothing was returned
W11_ValidationRaised ==
    /\ opc = "raised"
    /\ Len(Routed) = 2
    /\ post.send_to # None
    /\ Len(calls) >= 2
    /\ calls[Len(calls) - 1].line = 62
    /\ calls[Len(calls)].fn = "validation_func"
    /\ ret = NoPost

\* validation_func accepted and the Post it saw was returned
W11_ValidationAccepted ==
    /\ opc = "returned"
    /\ args.validation_func = "accepts"
    /\ Len(Routed) = 2
    /\ ret = ValidationCalls[1].post

(***************************************************************************)
(* Reading a text back: the events of the text up to its end or its first  *)
(* error, and the dicts of the `response` array as sequences of            *)
(* <<key, value>> pairs in the order they are written.                     *)
(***************************************************************************)
RECURSIVE EventsOf(_, _, _)
EventsOf(text, st, acc) ==
    LET r == IjsonNext(text, st) IN
    IF r.k = "event"
    THEN EventsOf(text, r.st, Append(acc, [prefix |-> r.prefix, event |-> r.event,
                                           value |-> r.value]))
    ELSE [events |-> acc, error |-> r.k = "error"]

JsonEvents(text) == EventsOf(text, IjsonInit, <<>>)

IsScalarEvent(ev) == ev.event \in {"string", "number", "null", "boolean"}

RECURSIVE ItemsOfEvents(_, _, _, _)
ItemsOfEvents(ev, i, cur, acc) ==
    IF i > Len(ev) THEN acc
    ELSE IF ev[i].prefix = P_response_item /\ ev[i].event = "start_map"
    THEN ItemsOfEvents(ev, i + 1, <<>>, acc)
    ELSE IF ev[i].prefix = P_response_item /\ ev[i].event = "end_map"
    THEN ItemsOfEvents(ev, i + 1, <<>>, Append(acc, cur))
    ELSE IF ev[i].prefix = P_response_item /\ ev[i].event = "map_key"
            /\ i < Len(ev) /\ IsScalarEvent(ev[i + 1])
    THEN ItemsOfEvents(ev, i + 2, Append(cur, <<ev[i].value.s, ev[i + 1].value>>), acc)
    ELSE ItemsOfEvents(ev, i + 1, cur, acc)

ResponseItems(text) == ItemsOfEvents(JsonEvents(text).events, 1, <<>>, <<>>)

Ignored(a) == ser.ignore_types.given /\ a.type.s \in ser.ignore_types.types

(***************************************************************************)
(* C12. Serializer order: the `response` array of the text written by      *)
(* post_to_raw_text holds one dict per attachment whose type is not        *)
(* ignored, in the order of the Post, then the send_to dict if and only if *)
(* if_format_send_to, then the message dict if and only if                 *)
(* if_format_message; no attachment of an ignored type is written.         *)
(***************************************************************************)
C12_SerializerOrder ==
    ser.pc = "done" =>
        LET items == ResponseItems(args.llm_output)
            al == ser.post.attachment_list
            keptIdx == {i \in 1..Len(al) : ~Ignored(al[i])}
            n == Cardinality(keptIdx)
            \* the position in the array of the kept attachment at position i
            pos(i) == Cardinality({j \in keptIdx : j <= i})
            tailLen == (IF ser.if_format_send_to THEN 1 ELSE 0)
                         + (IF ser.if_format_message THEN 1 ELSE 0)
        IN
        /\ ~JsonEvents(args.llm_output).error
        /\ Len(items) = n + tailLen
        /\ \A i \in keptIdx : items[pos(i)] = <<KT(al[i].type), KC(al[i].content)>>
        /\ ser.if_format_send_to =>
              items[n + 1] = <<KT(Str(S_send_to)), KC(ser.post.send_to)>>
        /\ ser.if_format_message =>
              items[n + tailLen] = <<KT(Str(S_message)), KC(ser.post.message)>>
        /\ ser.ignore_types.given =>
              \A k \in 1..n : items[k][1][2].s \notin ser.ignore_types.types

\* a Post of an ignored and a kept attachment was written with both flags on:
\* three dicts, the kept attachment, send_to, message
W12_IgnoredAndKept ==
    /\ ser.pc = "done"
    /\ ser.if_format_message /\ ser.if_format_send_to
    /\ Len(ser.post.attachment_list) = 2
    /\ Ignored(ser.post.attachment_list[1])
    /\ ~Ignored(ser.post.attachment_list[2])
    /\ Len(ResponseItems(args.llm_output)) = 3

(***************************************************************************)
(* The loop of lines 47-59 over a generator whose llm_output has several   *)
(* fragments: the consumer takes Fields with next() and may leave the loop *)
(* after any Field, which closes the suspended generator.                  *)
(***************************************************************************)
\* lines 58-59: break
ConsumerBreak(g) ==
    /\ gpc[g] = "suspended"
    /\ gpc' = [gpc EXCEPT ![g] = "closed"]
    /\ UNCHANGED <<frags, pulled, buf, tok, element, out, log, orchvars, src, plo>>

NextStop ==
    \/ ConsumerNext(1)
    \/ GenStep(1)
    \/ ConsumerBreak(1)

SpecStop == InitStream /\ [][NextStop]_vars

(***************************************************************************)
(* C13. Early-stop cancellation propagates upstream: when the consumer has *)
(* left the loop after a Field, no fragment lying after the fragment that  *)
(* completes this Field was pulled from llm_output, that is, the fragments *)
(* pulled before the last one do not hold the Field.                       *)
(***************************************************************************)
C13_EarlyStopUpstream ==
    (gpc[1] = "closed" /\ pulled[1] >= 1) =>
        Len(FieldsOf(Concat(SubSeq(frags[1], 1, pulled[1] - 1)))) < Len(out[1])

\* the text becomes malformed somewhere: the tokenizer fails on it
IsBrokenText(text) == JsonEvents(text).error

\* the Fields of the objects of the `response` array that lie before that place
FieldsOfItems(items) == [i \in 1..Len(items) |-> ItemField(items[i])]

AfterLoop == opc \in {"after_loop", "validate", "return", "returned", "raised"}

(***************************************************************************)
(* C14. Partial result on truncation: given a text that becomes malformed  *)
(* after some objects, raw_text_to_post raises only if validation_func     *)
(* does; when its loop ended without early stop one warning is logged and  *)
(* the Post holds exactly the Fields of the objects before the error; the  *)
(* routing call is made for that Post if its send_to is set,               *)
(* validation_func is called with it, and it is the Post returned.         *)
(***************************************************************************)
C14_PartialResult ==
    (opc # "idle" /\ IsBrokenText(args.llm_output)) =>
        LET partial == PostOf(args.send_from,
                              FieldsOfItems(ResponseItems(args.llm_output)))
        IN
        /\ gpc[1] # "raised"
        /\ opc = "raised" => (args.validation_func = "raises" /\ ValidationCalls # <<>>)
        /\ (AfterLoop /\ ~Stopped) => (post = partial /\ log = <<"info", "warning">>)
        /\ (opc \in {"validate", "return", "returned", "raised"} /\ ~Stopped) =>
              Len(RoutingCalls) = (IF partial.send_to # None THEN 1 ELSE 0)
        /\ (opc \in {"return", "returned", "raised"} /\ ~Stopped
              /\ args.validation_func # "none") =>
              (Len(ValidationCalls) = 1 /\ ValidationCalls[1].post = partial)
        /\ (opc = "returned" /\ ~Stopped) => ret = partial

\* a text cut off inside its third object was given: the warning was logged,
\* the routing call made, validation_func called and the Post of the two
\* Fields before the cut returned
W14_PartialPostReturned ==
    /\ opc = "returned"
    /\ args.llm_output = DocText(ResponseItems(args.llm_output), "truncated")
    /\ Len(ResponseItems(args.llm_output)) = 2
    /\ log = <<"info", "warning">>
    /\ Len(out[1]) = 2
    /\ Len(RoutingCalls) = 1
    /\ Len(ValidationCalls) = 1
    /\ ret.send_to # None

(***************************************************************************)
(* parse_llm_output: json.loads of the whole text, the value under         *)
(* "response", the assertion that it is a list.  json.loads is read off    *)
(* the events of the text: the text is a JSON document when the events     *)
(* run to the end without error, the first event tells the type of the     *)
(* top-level value, and of a key written twice the last value counts.      *)
(***************************************************************************)
TypeOfEvent(event) ==
    CASE event = "start_map" -> "dict"
      [] event = "start_array" -> "list"
      [] event = "string" -> "str"
      [] event = "number" -> "number"
      [] event = "boolean" -> "bool"
      [] OTHER -> "NoneType"

JsonLoads(text) ==
    LET r == JsonEvents(text) IN
    IF r.error \/ r.events = <<>>
    THEN [ok |-> FALSE, type |-> "none", events |-> <<>>]
    ELSE [ok |-> TRUE, type |-> TypeOfEvent(r.events[1].event), events |-> r.events]

\* the places of the top-level key "response" among the events of a dict
ResponseKeys(ev) ==
    {i \in 1..Len(ev) :
        ev[i].prefix = <<>> /\ ev[i].event = "map_key" /\ ev[i].value = Str(S_response)}

MaxOf(S) == CHOOSE i \in S : \A j \in S : j <= i

\* value["response"] of a loaded value: a TypeError if the value is no dict, a
\* KeyError if the dict has no such key
Subscript(v) ==
    IF v.type # "dict" THEN [e |-> "TypeError", value |-> NoList]
    ELSE IF ResponseKeys(v.events) = {} THEN [e |-> "KeyError", value |-> NoList]
    ELSE LET k == MaxOf(ResponseKeys(v.events)) IN
         [e |-> "none",
          value |-> [type |-> TypeOfEvent(v.events[k + 1].event),
                     items |-> ItemsOfEvents(SubSeq(v.events, k + 1, Len(v.events)),
                                             1, <<>>, <<>>)]]

\* json.loads(llm_output)["response"]: the value, or the exception raised
LoadsResponse(text) ==
    IF JsonLoads(text).ok THEN Subscript(JsonLoads(text))
    ELSE [e |-> "JSONDecodeError", value |-> NoList]

\* line 103; of the exceptions it can raise, line 106 catches JSONDecodeError
JsonLoadsResponse ==
    /\ plo.pc = "called"
    /\ \E r \in {LoadsResponse(plo.llm_output)} :
       plo' = IF r.e = "JSONDecodeError"
              THEN [plo EXCEPT !.loads = @ + 1, !.e = r.e, !.pc = "except"]
              ELSE IF r.e # "none"
              THEN [plo EXCEPT !.loads = @ + 1, !.e = r.e, !.pc = "raised"]
              ELSE [plo EXCEPT !.loads = @ + 1, !.structured_llm_output = r.value,
                               !.pc = "assert"]
    /\ UNCHANGED <<genvars, log, orchvars, src>>

\* AssertIsList, but the assertion is left out
AssertIsListLeftOut ==
    /\ plo.pc = "assert"
    /\ plo' = [plo EXCEPT !.pc = "return"]
    /\ UNCHANGED <<genvars, log, orchvars, src>>

\* line 104
AssertIsList ==
    /\ plo.pc = "assert"
    /\ plo' = IF plo.structured_llm_output.type = "list"
              THEN [plo EXCEPT !.pc = "return"]
              ELSE [plo EXCEPT !.e = "AssertionError", !.pc = "except"]
    /\ UNCHANGED <<genvars, log, orchvars, src>>

\* line 105
ReturnList ==
    /\ plo.pc = "return"
    /\ plo' = [plo EXCEPT !.ret = plo.structured_llm_output, !.pc = "returned"]
    /\ UNCHANGED <<genvars, log, orchvars, src>>

\* lines 106-108: the error is logged and raised again
LogAndReraise ==
    /\ plo.pc = "except"
    /\ log' = Append(log, "error")
    /\ plo' = [plo EXCEPT !.pc = "raised"]
    /\ UNCHANGED <<genvars, orchvars, src>>

(***************************************************************************)
(* The texts parse_llm_output is given, by what they are: no JSON          *)
(* document, a document without the top-level key "response", a document   *)
(* whose "response" is no array, a document whose "response" is an array.  *)
(***************************************************************************)
Obj(k, v) == <<"{">> \o DumpsStr(k) \o <<":", " ">> \o v \o <<"}">>
Obj2(k1, v1, k2, v2) ==
    <<"{">> \o DumpsStr(k1) \o <<":", " ">> \o v1 \o <<",", " ">>
            \o DumpsStr(k2) \o <<":", " ">> \o v2 \o <<"}">>

T_number == <<"7">>
T_emptyList == <<"[", "]">>
T_emptyDict == <<"{", "}">>
ScalarTexts == {T_number, DumpsStr(C_a), S_null, S_true}

InvalidTexts ==
    {<<>>, <<"{">> \o DumpsStr(S_response), Dumps(<<>>) \o <<"]">>}
        \cup {DocText(items, e) :
                items \in SeqsUpTo(PlainItems, MaxFields),
                e \in {"truncated", "malformed"}}

NoKeyTexts ==
    ScalarTexts
        \cup {T_emptyList, T_emptyDict, Obj(S_k, T_emptyList),
              Obj(S_k, Obj(S_response, T_emptyList))}

NotArrayTexts ==
    {Obj(S_response, v) : v \in ScalarTexts \cup {T_emptyDict}}
        \cup {Obj2(S_response, T_emptyList, S_response, T_number)}

ArrayDocs ==
    UNION {{[text |-> Dumps(items), items |-> items],
            [text |-> Obj2(S_k, T_number, S_response, DumpsList(items)), items |-> items],
            [text |-> Obj2(S_response, T_number, S_response, DumpsList(items)),
             items |-> items]} :
           items \in SeqsUpTo(PlainItems, MaxFields)}

FullTexts ==
    InvalidTexts \cup NoKeyTexts \cup NotArrayTexts \cup {a.text : a \in ArrayDocs}

InitFull ==
    /\ GenInit
    /\ OrchIdle
    /\ args = NoArgs
    /\ ser = NoSer
    /\ src = NoSrc
    /\ \E text \in FullTexts : plo = [NoParse EXCEPT !.pc = "called", !.llm_output = text]

NextFull ==
    \/ JsonLoadsResponse
    \/ AssertIsList
    \/ ReturnList
    \/ LogAndReraise

SpecFull == InitFull /\ [][NextFull]_vars

(***************************************************************************)
(* C15. Full-document parse fails hard: given a text that is no JSON       *)
(* document, or has no top-level key "response", or whose "response" is    *)
(* no array, parse_llm_output returns nothing and ends by raising; it      *)
(* returns only the list under "response" of a text whose "response" is    *)
(* an array, and such a text is not refused; json.loads runs once.         *)
(***************************************************************************)
C15_FullParseFailsHard ==
    /\ plo.loads <= 1
    /\ plo.pc \in {"assert", "return", "except", "returned", "raised"} => plo.loads = 1
    /\ plo.llm_output \in InvalidTexts \cup NoKeyTexts \cup NotArrayTexts =>
          /\ plo.pc \notin {"return", "returned"}
          /\ plo.ret = NoList
    /\ plo.pc = "raised" => plo.e # "none"
    /\ plo.pc = "returned" =>
          \E a \in ArrayDocs :
              /\ a.text = plo.llm_output
              /\ plo.ret = [type |-> "list", items |-> a.items]
    /\ plo.llm_output \in {a.text : a \in ArrayDocs} => plo.pc \notin {"except", "raised"}

\* "response" is written twice and its last value is a number: the assertion
\* failed, the error was logged and raised
W15_NotArrayRaised ==
    /\ plo.pc = "raised"
    /\ plo.llm_output = Obj2(S_response, T_emptyList, S_response, T_number)
    /\ plo.e = "AssertionError"
    /\ log = <<"error">>

\* the top-level value is a dict without "response": a KeyError, which line 106
\* does not catch, left parse_llm_output
W15_NoKeyRaised ==
    /\ plo.pc = "raised"
    /\ plo.llm_output = Obj(S_k, Obj(S_response, T_emptyList))
    /\ plo.e = "KeyError"
    /\ log = <<>>

\* a document of two elements was returned as a list of two
W15_ListReturned ==
    /\ plo.pc = "returned"
    /\ Len(plo.ret.items) = 2

IsString(v) == v.k = "str"

(***************************************************************************)
(* C16. Only complete Fields are observable: every Field the generator     *)
(* has yielded holds a string in its type slot and a string in its content *)
(* slot; while the generator is suspended at its yield the accumulator is  *)
(* that Field; and the step that resumes it after the yield leaves the     *)
(* accumulator empty.                                                      *)
(***************************************************************************)
C16_OnlyCompleteFields ==
    /\ [](/\ \A i \in 1..Len(out[1]) : IsString(out[1][i].type) /\ IsString(out[1][i].content)
          /\ gpc[1] = "suspended" =>
                (out[1] # <<>> /\ element[1] = out[1][Len(out[1])]))
    /\ [][(gpc[1] = "suspended" /\ gpc'[1] = "parsing") => element'[1] = EmptyElement]_vars
    /\ [][out'[1] # out[1] =>
            (/\ out'[1] = Append(out[1], element'[1])
             /\ gpc'[1] = "suspended"
             /\ DictLen(element'[1]) = 2)]_vars

\* a Field was yielded after an element with a pending content slot and an
\* element without a type were passed over, and the generator was resumed
W16_ResumedAfterYield ==
    /\ gpc[1] = "parsing"
    /\ Len(out[1]) = 1
    /\ element[1] = EmptyElement
    /\ Len(src[1].items) = 2
    /\ src[1].items[1] = <<KT(Str(T_x)), KC(None)>>

\* the array element has a pair with this key and this value
HasPair(item, key, v) == \E n \in 1..Len(item) : item[n] = <<key, v>>

(***************************************************************************)
(* C17. Same-element origin: of a well-formed JSON document, whatever the  *)
(* shape of its array elements, every Field the generator yields has the   *)
(* type and the content of one and the same element of the `response`      *)
(* array.                                                                  *)
(***************************************************************************)
C17_SameElementOrigin ==
    src[1].text = Dumps(src[1].items) =>
        \A i \in 1..Len(out[1]) :
            \E j \in 1..Len(src[1].items) :
                /\ HasPair(src[1].items[j], S_type, out[1][i].type)
                /\ HasPair(src[1].items[j], S_content, out[1][i].content)

\* an element of two keys with content first is rewritten with type first
TypeFirst(item) ==
    IF Len(item) = 2 /\ item[1][1] = S_content /\ item[2][1] = S_type
    THEN <<item[2], item[1]>>
    ELSE item

(***************************************************************************)
(* C19. Key-order symmetry: a document in which elements list `content`    *)
(* before `type` makes the generator yield the same Fields, at the same    *)
(* positions, as the document with the two keys of these elements in the   *)
(* opposite order.                                                         *)
(***************************************************************************)
C19_KeyOrderSymmetry ==
    (gpc[1] = "done" /\ src[1].text = Dumps(src[1].items)) =>
        out[1] = FieldsOf(Dumps([j \in 1..Len(src[1].items) |-> TypeFirst(src[1].items[j])]))

(***************************************************************************)
(* Two generators of the same translator, each given its own text in one   *)
(* fragment, resumed in any order.                                         *)
(***************************************************************************)
InterleaveTexts ==
    {DocText(items, e) : items \in SeqsUpTo(PlainItems, MaxPairFields),
                         e \in {"complete", "truncated"}}

InitInterleave ==
    /\ \E t1 \in InterleaveTexts, t2 \in InterleaveTexts :
          /\ frags = [g \in Gens |-> IF g = 1 THEN <<t1>> ELSE <<t2>>]
          /\ src = [g \in Gens |-> [items |-> <<>>, text |-> IF g = 1 THEN t1 ELSE t2]]
    /\ gpc = [g \in Gens |-> "created"]
    /\ GenFresh
    /\ OrchIdle
    /\ plo = NoParse
    /\ args = NoArgs
    /\ ser = NoSer

SpecInterleave == InitInterleave /\ [][NextPair]_vars

(***************************************************************************)
(* C18. Parser state is per invocation: of two generators of the same      *)
(* translator, resumed in any order, each has yielded at every point the   *)
(* first Fields its text yields when parsed alone, and all of them when it *)
(* has ended; a generator that was not yet resumed holds nothing of the    *)
(* other's stream, parser state or accumulator.                            *)
(***************************************************************************)
C18_PerInvocationState ==
    \A g \in Gens :
        /\ \E alone \in {FieldsOf(src[g].text)} :
              /\ IsPrefixOf(out[g], alone)
              /\ gpc[g] = "done" => out[g] = alone
        /\ gpc[g] = "created" =>
              (buf[g] = <<>> /\ tok[g] = IjsonInit /\ element[g] = EmptyElement)

\* both generators are suspended at their first Field, each in a text of its
\* own, and the two Fields differ
W18_BothSuspended ==
    /\ gpc[1] = "suspended"
    /\ gpc[2] = "suspended"
    /\ src[1].text # src[2].text
    /\ Len(out[1]) = 1
    /\ Len(out[2]) = 1
    /\ out[1] # out[2]

(***************************************************************************)
(* C20. Serializer purity: the call of post_to_raw_text leaves the Post it *)
(* is given as it was: message, send_to, send_from and the attachment list *)
(* are the same after the call as before, whatever the flags and           *)
(* ignore_types.                                                           *)
(***************************************************************************)
C20_SerializerPurity ==
    [][(ser.pc = "called" /\ ser'.pc = "done") =>
          /\ ser'.post.message = ser.post.message
          /\ ser'.post.send_to = ser.post.send_to
          /\ ser'.post.send_from = ser.post.send_from
          /\ ser'.post.attachment_list = ser.post.attachment_list]_vars

\* a Post of two attachments, one of an ignored type, was written with both
\* flags off
W20_WrittenWithIgnoredType ==
    /\ ser.pc = "done"
    /\ ~ser.if_format_message /\ ~ser.if_format_send_to
    /\ Len(ser.post.attachment_list) = 2
    /\ Ignored(ser.post.attachment_list[1])
    /\ ser.post.message # None
    /\ Len(ResponseItems(args.llm_output)) = 1

====
